---- MODULE Spec2Model ----
(***************************************************************************)
(* The two timed poll-loop scripts of scripts/multi-cloud-deployment:      *)
(*   insert_test.py  insert one probe record and count, once per second    *)
(*   read_test.py    one seed insert, then count once per second           *)
(* Each run is one sequential process.  Time is counted in whole seconds.  *)
(* The database client library is outside the repository: a call to it     *)
(* takes some time and either returns or raises.                           *)
(***************************************************************************)
EXTENDS Integers, Sequences, FiniteSets

(* ------------------------------ bounds --------------------------------- *)

\* The window of the poll loop in seconds.  The scripts fix it at 10 * 60
\* (insert_test.py:28, read_test.py:44); the model runs the same loop over a
\* shorter window.
Duration == 4

\* Longest time, in seconds, one database call takes.
MaxLatency == 2

\* Largest number of command-line arguments tried.
MaxArgs == 3

\* Largest number of records in the collection before the run.
MaxPre == 1

\* Latest clock reading at process start.
MaxStart == 1

(* ------------------------- program constants --------------------------- *)

\* time.sleep(1)
Sleep == 1

\* len(sys.argv) != 2
ExpectedArgv == 2

\* sys.exit(1), and the status of a process ended by an uncaught exception
ExitFailure == 1

\* status of a process that runs off the end of the script
ExitSuccess == 0

Scripts == {"insert_test", "read_test"}

\* What the connection string names: a descriptor the client library rejects
\* ("bad://invalid"), a well-formed one whose server cannot be reached, or a
\* well-formed one whose server answers (single calls may still fail).
Endpoints == {"invalid", "unreachable", "reachable"}

VARIABLES
    script,         \* which script runs
    nargs,          \* number of command-line arguments
    endpoint,       \* what the connection string names
    pc,             \* position of the process
    clock,          \* time.time()
    exit_status,    \* {} while the process runs, then {the status it ended with}
    client,         \* "none", "open", "closed"
    out,            \* kinds of messages printed outside the loop
    start_time,     \* start_time
    end_time,       \* end_time
    count,          \* insert_test: count
    read_count,     \* read_test: read_count
    error_count,    \* read_test: error_count (insert_test keeps none)
    failed,         \* insert_test: failed
    cnt_ok,         \* whether this iteration's count_documents returned
    last_read,      \* value the last count_documents of the loop returned (once cnt_ok)
    final_read,     \* final_read_count / final_count (once "final_count" is printed)
    reported,       \* the number printed in "Completed {...}" (once "completed" is printed)
    db,             \* records in testcollection
    pre,            \* records in testcollection before the run
    unacked,        \* inserts that raised although the server applied them
    inserted,       \* "count" fields of the documents insert_one returned for
    seed_ok,        \* read_test: "unknown", "yes", "no"
    connected,      \* some database call of this run has returned
    iterations,     \* loop iterations begun
    iter_start,     \* clock reading of the loop test that began the iteration
    exit_seen,      \* clock reading of the loop test that ended the loop
    busy,           \* time spent in database calls since start_time
    iter_lines,     \* lines printed by the current iteration
    loop_lines,     \* lines printed inside the loop
    inserts_issued, \* insert_one calls made
    counts_issued   \* count_documents calls made

vars == <<script, nargs, endpoint, pc, clock, exit_status, client, out,
          start_time, end_time, count, read_count, error_count, failed, cnt_ok,
          last_read, final_read, reported, db, pre, unacked, inserted, seed_ok,
          connected, iterations, iter_start, exit_seen, busy, iter_lines,
          loop_lines, inserts_issued, counts_issued>>

\* groups used by UNCHANGED
inputs   == <<script, nargs, endpoint, pre>>
counters == <<count, read_count, error_count>>
window   == <<start_time, end_time>>
loopobs  == <<iterations, iter_start, exit_seen>>
printed  == <<iter_lines, loop_lines>>
dbstate  == <<db, unacked, inserted>>
issued   == <<inserts_issued, counts_issued>>

(* ------------------------------ helpers -------------------------------- *)

\* len(sys.argv): the script name and the arguments
ArgvLen(n) == n + 1

\* fault: extra arguments are let through
ArgsOk_Mut(argv_len) == argv_len >= ExpectedArgv

\* not (len(sys.argv) != 2)
ArgsOk(argv_len) == ~(argv_len # ExpectedArgv)

\* fault: a rejected descriptor goes unnoticed
ConnectRaises_Mut(ep) == FALSE

\* MongoClient(connection_string) parses the descriptor and raises on one it
\* cannot parse; it does not wait for a server.
ConnectRaises(ep) == ep = "invalid"

\* Outcomes of one database call: TRUE it returned, FALSE it raised.
OpOutcomes(ep) == IF ep = "reachable" THEN {TRUE, FALSE} ELSE {FALSE}

\* Whether the server may have applied an insert whose call raised.
AppliedOutcomes(ep, ok) ==
    IF ok THEN {TRUE} ELSE IF ep = "reachable" THEN {TRUE, FALSE} ELSE {FALSE}

Latencies == 0..MaxLatency

\* Whether the raised exception carries a `details` attribute.
DetailsOutcomes == {TRUE, FALSE}

\* fault: the loop test lets an iteration begin at end_time
LoopTest_Mut(now, e) == now <= e

\* while time.time() < end_time
LoopTest(now, e) == now < e

\* end_time = start_time + (10 * 60)
EndTime(s) == s + Duration

\* fault: the sleep returns at once
SleepUntil_Mut(now) == now

\* time.sleep(1)
SleepUntil(now) == now + Sleep

\* fault: the record carries the counter after the increment
NewDoc_Mut(c) == c + 1

\* doc = {"count": count, ...}: the counter written into the probe record
NewDoc(c) == c

\* fault: count moves also when insert_one raised
CountAfterInsert_Mut(ok, c) == c + 1

\* count += 1 after insert_one returned; the except branch leaves count
CountAfterInsert(ok, c) == IF ok THEN c + 1 ELSE c

\* lines the insert part of an iteration prints: none, or the Error line
InsertLines(ok) == IF ok THEN 0 ELSE 1

\* lines the count part of an iteration prints: the row, the READ AVAILABLE
\* row, or "read error"
InsertCountLines(ok, f) == 1

\* fault: a failed read is counted as a read as well
ReadCounters_Mut(ok, rc, ec) == IF ok THEN <<rc + 1, ec>> ELSE <<rc + 1, ec + 1>>

\* read_count += 1 in the try body, error_count += 1 in the except branch
ReadCounters(ok, rc, ec) == IF ok THEN <<rc + 1, ec>> ELSE <<rc, ec + 1>>

\* fault: a failed read prints nothing
ReadLines_Mut(ok, details) == IF ok THEN 1 ELSE 0

\* lines one read iteration prints: the Success row; or the ERROR row, the
\* exception type, the message, the details if the exception has them, the
\* cause (every exception has __cause__) and an empty line
ReadLines(ok, details) ==
    IF ok THEN 1 ELSE 1 + 1 + 1 + (IF details THEN 1 ELSE 0) + 1 + 1

\* fault: a failed seed insert does not end the process
SeedFailureExits_Mut(ok) == FALSE

\* the except branch of the seed insert ends in sys.exit(1)
SeedFailureExits(ok) == ~ok

\* the process ends
Exit(status) ==
    /\ pc' = "done"
    /\ exit_status' = {status}

(* ------------------------------- Init ---------------------------------- *)

Init ==
    /\ script \in Scripts
    /\ nargs \in 0..MaxArgs
    /\ endpoint \in Endpoints
    /\ pre \in 0..MaxPre
    /\ clock \in 0..MaxStart
    /\ pc = "args"
    /\ exit_status = {}
    /\ client = "none"
    /\ out = {}
    /\ start_time = 0
    /\ end_time = 0
    /\ count = 0
    /\ read_count = 0
    /\ error_count = 0
    /\ failed = FALSE
    /\ cnt_ok = FALSE
    /\ last_read = 0
    /\ final_read = 0
    /\ reported = 0
    /\ db = pre
    /\ unacked = 0
    /\ inserted = <<>>
    /\ seed_ok = "unknown"
    /\ connected = FALSE
    /\ iterations = 0
    /\ iter_start = 0
    /\ exit_seen = 0
    /\ busy = 0
    /\ iter_lines = 0
    /\ loop_lines = 0
    /\ inserts_issued = 0
    /\ counts_issued = 0

(* --------------------------- insert_test.py ---------------------------- *)

\* lines 11-15
I_ArgCheck ==
    /\ script = "insert_test"
    /\ pc = "args"
    /\ IF ArgsOk(ArgvLen(nargs))
       THEN /\ pc' = "connect"
            /\ UNCHANGED <<exit_status, out>>
       ELSE /\ out' = out \cup {"usage"}
            /\ Exit(ExitFailure)
    /\ UNCHANGED <<inputs, clock, client, window, counters, failed, cnt_ok,
                   last_read, final_read, reported, dbstate, seed_ok, connected,
                   loopobs, busy, printed, issued>>

\* line 17
I_Connect ==
    /\ script = "insert_test"
    /\ pc = "connect"
    /\ IF ConnectRaises(endpoint)
       THEN /\ out' = out \cup {"traceback"}
            /\ Exit(ExitFailure)
            /\ UNCHANGED client
       ELSE /\ client' = "open"
            /\ pc' = "start"
            /\ UNCHANGED <<exit_status, out>>
    /\ UNCHANGED <<inputs, clock, window, counters, failed, cnt_ok, last_read,
                   final_read, reported, dbstate, seed_ok, connected, loopobs,
                   busy, printed, issued>>

\* lines 19-29
I_Start ==
    /\ script = "insert_test"
    /\ pc = "start"
    /\ out' = out \cup {"header"}
    /\ start_time' = clock
    /\ end_time' = EndTime(clock)
    /\ count' = 0
    /\ pc' = "check"
    /\ UNCHANGED <<inputs, clock, exit_status, client, read_count, error_count,
                   failed, cnt_ok, last_read, final_read, reported, dbstate,
                   seed_ok, connected, loopobs, busy, printed, issued>>

\* lines 31-34
I_LoopCheck ==
    /\ script = "insert_test"
    /\ pc = "check"
    /\ IF LoopTest(clock, end_time)
       THEN /\ pc' = "insert"
            /\ failed' = FALSE
            /\ cnt_ok' = FALSE
            /\ iterations' = iterations + 1
            /\ iter_start' = clock
            /\ iter_lines' = 0
            /\ UNCHANGED exit_seen
       ELSE /\ pc' = "summary"
            /\ exit_seen' = clock
            /\ UNCHANGED <<failed, cnt_ok, iterations, iter_start, iter_lines>>
    /\ UNCHANGED <<inputs, clock, exit_status, client, out, window, counters,
                   last_read, final_read, reported, dbstate, seed_ok, connected,
                   busy, loop_lines, issued>>

\* lines 35-46
I_Insert ==
    /\ script = "insert_test"
    /\ pc = "insert"
    /\ \E lat \in Latencies, ok \in OpOutcomes(endpoint) :
       \E applied \in AppliedOutcomes(endpoint, ok) :
          /\ clock' = clock + lat
          /\ busy' = busy + lat
          /\ inserts_issued' = inserts_issued + 1
          /\ failed' = ~ok
          /\ count' = CountAfterInsert(ok, count)
          /\ inserted' = IF ok THEN Append(inserted, NewDoc(count)) ELSE inserted
          /\ db' = IF applied THEN db + 1 ELSE db
          /\ unacked' = IF applied /\ ~ok THEN unacked + 1 ELSE unacked
          /\ connected' = (connected \/ ok)
          /\ iter_lines' = iter_lines + InsertLines(ok)
          /\ loop_lines' = loop_lines + InsertLines(ok)
    /\ pc' = "count"
    /\ UNCHANGED <<inputs, exit_status, client, out, window, read_count,
                   error_count, cnt_ok, last_read, final_read, reported, seed_ok,
                   loopobs, counts_issued>>

\* lines 48-56
I_Count ==
    /\ script = "insert_test"
    /\ pc = "count"
    /\ \E lat \in Latencies, ok \in OpOutcomes(endpoint) :
          /\ clock' = clock + lat
          /\ busy' = busy + lat
          /\ counts_issued' = counts_issued + 1
          /\ cnt_ok' = ok
          /\ last_read' = IF ok THEN db ELSE last_read
          /\ connected' = (connected \/ ok)
          /\ iter_lines' = iter_lines + InsertCountLines(ok, failed)
          /\ loop_lines' = loop_lines + InsertCountLines(ok, failed)
    /\ pc' = "sleep"
    /\ UNCHANGED <<inputs, exit_status, client, out, window, counters, failed,
                   final_read, reported, dbstate, seed_ok, loopobs,
                   inserts_issued>>

\* line 58
I_Sleep ==
    /\ script = "insert_test"
    /\ pc = "sleep"
    /\ clock' = SleepUntil(clock)
    /\ pc' = "check"
    /\ UNCHANGED <<inputs, exit_status, client, out, window, counters, failed,
                   cnt_ok, last_read, final_read, reported, dbstate, seed_ok,
                   connected, loopobs, busy, printed, issued>>

\* lines 60-63: the final count_documents stands outside any try
I_Summary ==
    /\ script = "insert_test"
    /\ pc = "summary"
    /\ reported' = count
    /\ \E lat \in Latencies, ok \in OpOutcomes(endpoint) :
          /\ clock' = clock + lat
          /\ counts_issued' = counts_issued + 1
          /\ connected' = (connected \/ ok)
          /\ IF ok
             THEN /\ final_read' = db
                  /\ out' = out \cup {"completed", "final_count"}
                  /\ client' = "closed"
                  /\ Exit(ExitSuccess)
             ELSE /\ out' = out \cup {"completed", "traceback"}
                  /\ Exit(ExitFailure)
                  /\ UNCHANGED <<final_read, client>>
    /\ UNCHANGED <<inputs, window, counters, failed, cnt_ok, last_read, dbstate,
                   seed_ok, loopobs, busy, printed, inserts_issued>>

(* ---------------------------- read_test.py ----------------------------- *)

\* lines 8-12
R_ArgCheck ==
    /\ script = "read_test"
    /\ pc = "args"
    /\ IF ArgsOk(ArgvLen(nargs))
       THEN /\ pc' = "connect"
            /\ UNCHANGED <<exit_status, out>>
       ELSE /\ out' = out \cup {"usage"}
            /\ Exit(ExitFailure)
    /\ UNCHANGED <<inputs, clock, client, window, counters, failed, cnt_ok,
                   last_read, final_read, reported, dbstate, seed_ok, connected,
                   loopobs, busy, printed, issued>>

\* line 14
R_Connect ==
    /\ script = "read_test"
    /\ pc = "connect"
    /\ IF ConnectRaises(endpoint)
       THEN /\ out' = out \cup {"traceback"}
            /\ Exit(ExitFailure)
            /\ UNCHANGED client
       ELSE /\ client' = "open"
            /\ pc' = "seed"
            /\ UNCHANGED <<exit_status, out>>
    /\ UNCHANGED <<inputs, clock, window, counters, failed, cnt_ok, last_read,
                   final_read, reported, dbstate, seed_ok, connected, loopobs,
                   busy, printed, issued>>

\* lines 19-36
R_SeedInsert ==
    /\ script = "read_test"
    /\ pc = "seed"
    /\ \E lat \in Latencies, ok \in OpOutcomes(endpoint) :
       \E applied \in AppliedOutcomes(endpoint, ok) :
          /\ clock' = clock + lat
          /\ inserts_issued' = inserts_issued + 1
          /\ db' = IF applied THEN db + 1 ELSE db
          /\ unacked' = IF applied /\ ~ok THEN unacked + 1 ELSE unacked
          /\ connected' = (connected \/ ok)
          /\ seed_ok' = IF ok THEN "yes" ELSE "no"
          /\ IF SeedFailureExits(ok)
             THEN /\ out' = out \cup {"seed_diag"}
                  /\ Exit(ExitFailure)
             ELSE /\ out' = out \cup (IF ok THEN {"seed_inserted"} ELSE {"seed_diag"})
                  /\ pc' = "start"
                  /\ UNCHANGED exit_status
    /\ UNCHANGED <<inputs, client, window, counters, failed, cnt_ok, last_read,
                   final_read, reported, inserted, loopobs, busy, printed,
                   counts_issued>>

\* lines 38-46
R_Start ==
    /\ script = "read_test"
    /\ pc = "start"
    /\ out' = out \cup {"header"}
    /\ start_time' = clock
    /\ end_time' = EndTime(clock)
    /\ read_count' = 0
    /\ error_count' = 0
    /\ pc' = "check"
    /\ UNCHANGED <<inputs, clock, exit_status, client, count, failed, cnt_ok,
                   last_read, final_read, reported, dbstate, seed_ok, connected,
                   loopobs, busy, printed, issued>>

\* lines 48-49
R_LoopCheck ==
    /\ script = "read_test"
    /\ pc = "check"
    /\ IF LoopTest(clock, end_time)
       THEN /\ pc' = "count"
            /\ cnt_ok' = FALSE
            /\ iterations' = iterations + 1
            /\ iter_start' = clock
            /\ iter_lines' = 0
            /\ UNCHANGED exit_seen
       ELSE /\ pc' = "summary"
            /\ exit_seen' = clock
            /\ UNCHANGED <<cnt_ok, iterations, iter_start, iter_lines>>
    /\ UNCHANGED <<inputs, clock, exit_status, client, out, window, counters,
                   failed, last_read, final_read, reported, dbstate, seed_ok,
                   connected, busy, loop_lines, issued>>

\* lines 50-63
R_Count ==
    /\ script = "read_test"
    /\ pc = "count"
    /\ \E lat \in Latencies, ok \in OpOutcomes(endpoint), details \in DetailsOutcomes :
          /\ clock' = clock + lat
          /\ busy' = busy + lat
          /\ counts_issued' = counts_issued + 1
          /\ cnt_ok' = ok
          /\ last_read' = IF ok THEN db ELSE last_read
          /\ connected' = (connected \/ ok)
          /\ read_count' = ReadCounters(ok, read_count, error_count)[1]
          /\ error_count' = ReadCounters(ok, read_count, error_count)[2]
          /\ iter_lines' = iter_lines + ReadLines(ok, details)
          /\ loop_lines' = loop_lines + ReadLines(ok, details)
    /\ pc' = "sleep"
    /\ UNCHANGED <<inputs, exit_status, client, out, window, count, failed,
                   final_read, reported, dbstate, seed_ok, loopobs,
                   inserts_issued>>

\* line 65
R_Sleep ==
    /\ script = "read_test"
    /\ pc = "sleep"
    /\ clock' = SleepUntil(clock)
    /\ pc' = "check"
    /\ UNCHANGED <<inputs, exit_status, client, out, window, counters, failed,
                   cnt_ok, last_read, final_read, reported, dbstate, seed_ok,
                   connected, loopobs, busy, printed, issued>>

\* lines 67-77: the final count_documents stands inside a try
R_Summary ==
    /\ script = "read_test"
    /\ pc = "summary"
    /\ reported' = read_count
    /\ \E lat \in Latencies, ok \in OpOutcomes(endpoint) :
          /\ clock' = clock + lat
          /\ counts_issued' = counts_issued + 1
          /\ connected' = (connected \/ ok)
          /\ final_read' = IF ok THEN db ELSE final_read
          /\ out' = out \cup {"completed", "errors"}
                        \cup (IF ok THEN {"final_count"} ELSE {"final_count_error"})
    /\ client' = "closed"
    /\ Exit(ExitSuccess)
    /\ UNCHANGED <<inputs, window, counters, failed, cnt_ok, last_read, dbstate,
                   seed_ok, loopobs, busy, printed, inserts_issued>>

(* --------------------------- specification ----------------------------- *)

Next ==
    \/ I_ArgCheck
    \/ I_Connect
    \/ I_Start
    \/ I_LoopCheck
    \/ I_Insert
    \/ I_Count
    \/ I_Sleep
    \/ I_Summary
    \/ R_ArgCheck
    \/ R_Connect
    \/ R_SeedInsert
    \/ R_Start
    \/ R_LoopCheck
    \/ R_Count
    \/ R_Sleep
    \/ R_Summary

Spec == Init /\ [][Next]_vars

\* One sequential process: it takes its next step as long as it has one.
FairSpec == Spec /\ WF_vars(Next)

(* ------------------------- terms of the claims ------------------------- *)

\* the process is inside an iteration of the poll loop
InBody == pc \in {"insert", "count", "sleep"}

\* the process is at the loop test or inside an iteration
InLoop == pc = "check" \/ InBody

\* the loop test has failed: the duration has elapsed
LoopEnded == pc = "summary" \/ (pc = "done" /\ iterations > 0)

\* database calls one iteration makes
OpsPerIteration == IF script = "insert_test" THEN 2 ELSE 1

\* the longest one iteration takes: its calls and its sleep
MaxIterationWork == OpsPerIteration * MaxLatency + Sleep

CeilDiv(a, b) == (a + b - 1) \div b

(* -------------------------------- C1 ----------------------------------- *)

C1_Step ==
    /\ (script = "read_test" /\ pc = "count" /\ pc' # pc) =>
          /\ pc' = "sleep"
          /\ count' = count
          /\ IF cnt_ok'
             THEN read_count' = read_count + 1 /\ error_count' = error_count
             ELSE error_count' = error_count + 1 /\ read_count' = read_count
    /\ (script = "insert_test" /\ pc = "insert" /\ pc' # pc) =>
          /\ pc' = "count"
          /\ count' = (IF failed' THEN count ELSE count + 1)
          /\ error_count' = error_count
          /\ read_count' = read_count
    /\ (script = "insert_test" /\ pc = "count" /\ pc' # pc) =>
          /\ pc' = "sleep"
          /\ UNCHANGED counters
    /\ (pc = "sleep" /\ pc' # pc) =>
          /\ pc' = "check"
          /\ exit_status' = {}
          /\ UNCHANGED counters

\* C1 (amended): in read_test.py a count that raises adds one to error_count
\* and leaves read_count, a count that returns adds one to read_count and
\* leaves error_count.  insert_test.py keeps no error counter: an insert that
\* raises changes no counter, an insert that returns adds one to count, and
\* its count_documents changes no counter whether it returns or raises.  In
\* both scripts the iteration goes on to its sleep and the next loop test.
C1_Amended == [][C1_Step]_vars

\* a failed and a successful count have both happened and the loop goes on
C1_Witness ==
    /\ script = "read_test"
    /\ pc = "check"
    /\ error_count >= 1
    /\ read_count >= 1

C1_FailedOp ==
    \/ script = "read_test" /\ pc = "count" /\ pc' = "sleep" /\ ~cnt_ok'
    \/ script = "insert_test" /\ pc = "insert" /\ pc' = "count" /\ failed'
    \/ script = "insert_test" /\ pc = "count" /\ pc' = "sleep" /\ ~cnt_ok'

\* C1 as stated: an operation that raises increments the error counter, and
\* only it, and the loop continues.
C1_Original ==
    [][C1_FailedOp =>
          /\ error_count' = error_count + 1
          /\ count' = count
          /\ read_count' = read_count
          /\ pc' \in {"count", "sleep"}]_vars

(* -------------------------------- C2 ----------------------------------- *)

\* C2 (amended): every iteration prints at least one line, and exactly one
\* only when its insert (insert_test.py) or its count (read_test.py)
\* returned.  An insert_test.py iteration whose insert raised prints two
\* lines (the Error line, then the READ AVAILABLE row or "read error"); a
\* read_test.py iteration whose count raised prints five lines, six when the
\* exception has details.  So the lines printed inside the loop number
\* 2 * iterations - count in insert_test.py and between
\* read_count + 5 * error_count and read_count + 6 * error_count in
\* read_test.py.
C2_Amended ==
    /\ (pc = "sleep" /\ script = "insert_test") =>
          iter_lines = (IF failed THEN 2 ELSE 1)
    /\ (pc = "sleep" /\ script = "read_test") =>
          IF cnt_ok THEN iter_lines = 1 ELSE iter_lines \in {5, 6}
    /\ (pc \in {"check", "sleep", "summary"} \/ LoopEnded) =>
          /\ loop_lines >= iterations
          /\ script = "insert_test" => loop_lines = 2 * iterations - count
          /\ script = "read_test" =>
                /\ loop_lines >= read_count + 5 * error_count
                /\ loop_lines <= read_count + 6 * error_count

\* iterations with and without a failed insert have been printed
C2_Witness ==
    /\ script = "insert_test"
    /\ pc = "check"
    /\ failed
    /\ count >= 1
    /\ iterations >= 2

\* C2 as stated: the lines printed inside the loop number the iterations
\* executed.
C2_Original ==
    (pc \in {"check", "summary"} \/ LoopEnded) => loop_lines = iterations

(* -------------------------------- C3 ----------------------------------- *)

C3_Inv ==
    /\ (InLoop \/ LoopEnded) => end_time = start_time + Duration
    /\ InBody =>
          /\ iter_start < end_time
          /\ iter_start <= clock
    /\ LoopEnded =>
          /\ iterations > 0
          /\ exit_seen >= end_time
          /\ exit_seen - end_time < exit_seen - iter_start
          /\ exit_seen - iter_start <= MaxIterationWork
          /\ exit_seen < start_time + Duration + MaxIterationWork

C3_Step ==
    /\ (pc = "check" /\ pc' # pc) =>
          /\ (pc' = "summary") <=> (clock >= end_time)
          /\ (pc' \in {"insert", "count"}) <=> (clock < end_time)
    /\ (InLoop /\ pc' # pc) => end_time' = end_time

\* C3: end_time is start_time + D and stays fixed; an iteration begins only
\* at a loop test that saw time < end_time, the loop ends at the first test
\* that sees time >= end_time, and that test comes less than the work and
\* sleep of the last iteration after end_time.
C3_EndTime == [](C3_Inv) /\ [][C3_Step]_vars

\* the loop has ended past end_time after several iterations
C3_Witness ==
    /\ pc = "summary"
    /\ exit_seen > end_time
    /\ iterations >= 2

(* -------------------------------- C4 ----------------------------------- *)

C4_Inv ==
    /\ iterations <= CeilDiv(Duration, Sleep)
    /\ pc = "check" => clock = start_time + iterations * Sleep + busy
    /\ LoopEnded =>
          /\ exit_seen = start_time + iterations * Sleep + busy
          /\ (iterations - 1) * Sleep < Duration
          /\ busy = 0 => iterations = CeilDiv(Duration, Sleep)
          /\ busy > 0 => iterations <= CeilDiv(Duration, Sleep)

\* C4: the poll loop always ends; at every loop test the time since
\* start_time is the sleeps of the iterations plus the time the operations
\* took, whatever failed, so the iterations never number more than
\* ceil(D / S), and number exactly that when the operations took no time.
C4_Iterations == [](C4_Inv) /\ (InLoop ~> LoopEnded)

\* a loop whose operations took no time, and some of which failed, has ended
C4_Witness ==
    /\ script = "read_test"
    /\ pc = "summary"
    /\ busy = 0
    /\ error_count >= 1
    /\ iterations = CeilDiv(Duration, Sleep)

(* -------------------------------- C5 ----------------------------------- *)

\* C5: with a number of arguments other than one the script prints the
\* usage message and exits with status 1, no client created and no database
\* operation issued; with exactly one it prints no usage message and goes on
\* to connection setup.
C5_ArgCheck ==
    /\ (nargs # 1 /\ pc # "args") =>
          /\ pc = "done"
          /\ exit_status = {ExitFailure}
          /\ out = {"usage"}
          /\ client = "none"
          /\ inserts_issued = 0
          /\ counts_issued = 0
    /\ (nargs = 1 /\ pc # "args") =>
          /\ "usage" \notin out
          /\ pc = "connect" \/ client # "none" \/ "traceback" \in out

\* a run with two arguments has ended
C5_Witness ==
    /\ nargs = 2
    /\ pc = "done"
    /\ exit_status = {ExitFailure}

(* -------------------------------- C6 ----------------------------------- *)

\* MongoClient(connection_string) has raised
ConnectRaised == endpoint = "invalid" /\ nargs = 1 /\ pc \notin {"args", "connect"}

\* C6 (amended): when MongoClient(connection_string) raises, as for
\* "bad://invalid", the process ends with status 1 on the uncaught exception
\* without entering the poll loop.  In read_test.py a failed seed insert, as
\* for an endpoint that cannot be reached, prints the diagnostic and exits
\* with status 1 without entering the loop, so its loop runs only after a
\* database call has succeeded.  insert_test.py makes no database call
\* before its loop: it enters the loop with the client created and no
\* connection established, also when the endpoint cannot be reached.
C6_Amended ==
    /\ ConnectRaised =>
          /\ pc = "done"
          /\ exit_status = {ExitFailure}
          /\ out = {"traceback"}
          /\ client = "none"
          /\ iterations = 0
    /\ (script = "read_test" /\ seed_ok = "no") =>
          /\ pc = "done"
          /\ exit_status = {ExitFailure}
          /\ out = {"seed_diag"}
          /\ iterations = 0
    /\ (script = "read_test" /\ (InLoop \/ LoopEnded)) =>
          /\ seed_ok = "yes"
          /\ connected
    /\ (script = "insert_test" /\ InLoop) =>
          /\ client = "open"
          /\ (pc = "check" /\ iterations = 0) =>
                /\ ~connected
                /\ inserts_issued = 0
                /\ counts_issued = 0

\* read_test.py has ended on the seed insert against an unreachable endpoint
C6_Witness ==
    /\ script = "read_test"
    /\ endpoint = "unreachable"
    /\ pc = "done"
    /\ "seed_diag" \in out

\* C6 as stated: with a descriptor that is rejected or an endpoint that
\* cannot be reached the script ends with a non-zero status and a diagnostic
\* and never enters the loop, and the loop is entered only once a connection
\* was established.
C6_Original ==
    /\ (endpoint \in {"invalid", "unreachable"} /\ nargs = 1) =>
          /\ ~InLoop
          /\ pc = "done" =>
                /\ exit_status = {ExitFailure}
                /\ out \cap {"traceback", "seed_diag"} # {}
    /\ InLoop => connected

(* -------------------------------- C7 ----------------------------------- *)

\* C7: read_test.py makes its seed insert once, before the loop; if it fails
\* the process prints the diagnostic and exits with status 1 and makes no
\* count, and if it succeeds the loop starts and no other insert is made.
C7_SeedInsert ==
    script = "read_test" =>
       /\ inserts_issued <= 1
       /\ (seed_ok = "unknown") <=> (inserts_issued = 0)
       /\ seed_ok = "no" =>
             /\ pc = "done"
             /\ exit_status = {ExitFailure}
             /\ "seed_diag" \in out
             /\ counts_issued = 0
       /\ (counts_issued > 0 \/ InLoop \/ LoopEnded \/ pc = "start") =>
             /\ seed_ok = "yes"
             /\ inserts_issued = 1
       /\ (seed_ok = "yes" /\ pc = "done") => "completed" \in out

\* a read_test.py run has gone through its loop and its summary
C7_Witness ==
    /\ script = "read_test"
    /\ pc = "done"
    /\ "completed" \in out
    /\ inserts_issued = 1
    /\ counts_issued >= 3

(* -------------------------------- C8 ----------------------------------- *)

\* C8: in insert_test.py every count that returns, in the loop and in the
\* summary, returns the records that were there before plus count plus the
\* inserts the server applied although the call raised; so it is at least
\* count, and exactly pre-existing + count when no failed insert was applied.
C8_ReadCount ==
    script = "insert_test" =>
       /\ (pc = "sleep" /\ cnt_ok) =>
             /\ last_read = pre + count + unacked
             /\ last_read >= count
             /\ unacked = 0 => last_read = pre + count
       /\ "final_count" \in out =>
             /\ final_read = pre + count + unacked
             /\ final_read >= count
             /\ unacked = 0 => final_read = pre + count

\* a count has returned after successful and failed inserts
C8_Witness ==
    /\ script = "insert_test"
    /\ pc = "sleep"
    /\ cnt_ok
    /\ count >= 2
    /\ count < iterations
    /\ pre >= 1
    /\ unacked = 0

(* -------------------------------- C9 ----------------------------------- *)

\* C9: whenever the loop ended because the duration elapsed, the process
\* ends having printed the summary and closed the client, with status 0,
\* also when the final count fails.
C9_Claim ==
    (pc = "done" /\ iterations > 0) =>
       /\ "completed" \in out
       /\ client = "closed"
       /\ exit_status = {ExitSuccess}

(* -------------------------------- C10 ---------------------------------- *)

\* C10: in insert_test.py the documents insert_one returned for carry the
\* counters 0, 1, 2, ... in order, with no gap and no duplicate, count is
\* their number, and the summary reports that number.
C10_Counter ==
    script = "insert_test" =>
       /\ Len(inserted) = count
       /\ \A i \in 1..Len(inserted) : inserted[i] = i - 1
       /\ "completed" \in out => reported = Len(inserted)

\* a run with successful and failed inserts has reported its count
C10_Witness ==
    /\ script = "insert_test"
    /\ pc = "done"
    /\ reported >= 2
    /\ reported < iterations

====
